---------------------------- MODULE Spec2Model ----------------------------
(***************************************************************************)
(* A model of rapp (src/rapp.cpp): the application launcher's Entry Store, *)
(* its BK-tree fuzzy index over the Levenshtein distance, the query engine *)
(* filter_apps, the prompt's edit buffer (namespace _pcursor), and the list *)
(* cursor / scroll offset updated once per tick of main's loop.            *)
(*                                                                         *)
(* Strings are sequences of character codes (ASCII).  Entry Store indices, *)
(* cursors and offsets are 0-based as in the source; the TLA+ sequence     *)
(* that models a std::vector or std::string v holds v[i] at position i+1.  *)
(***************************************************************************)
EXTENDS Integers, Sequences, FiniteSets, TLC

VARIABLES
  apps,                 \* static std::vector<app_t> apps        (Entry Store)
  tree,                 \* static BKTree tree                    (Fuzzy Index)
  ranks,                \* static unordered_map ranks            (Rank Table)
  prompt,               \* static std::string prompt             (query text)
  pcursor,              \* static size_t pcursor                 (prompt cursor)
  filtered_apps,        \* static std::vector<size_t> filtered_apps
  no_matches,           \* static bool no_matches
  draw_all_apps,        \* static bool draw_all_apps
  lcursor,              \* static size_t lcursor                 (list cursor)
  visible_start_idx,    \* static size_t visible_start_idx
  visible_end_idx,      \* static size_t visible_end_idx
  lcursor_visible,      \* static bool lcursor_visible
  scroll_offset,        \* static float scroll_offset            (pixels)
  apps_len,             \* static size_t apps_len
  launched_application, \* static std::string_view launched_application
  child,                \* what fork() in launch_application gave: "none" (not
                        \* called), "spawned" or "fork_failed"
  pc,                   \* the step the control last ran (its position inside the tick)
  old_len,              \* handle_keys' local old_len
  status,               \* "running", "terminated" (uncaught exception), "exited"
  recomputed,           \* whether the last step called filter_apps ("no"), and if so
                        \* whether the list cursor or the scroll offset was off 0
  ed_a, ed_b, ed_ret,   \* one call of BKTree::edit_distance_ and its results
  q_target, q_max, q_ret, \* one call of BKTree::query and its result
  entries,              \* the files of the search directories, in discovery order
  dir_pos,              \* how many of them parse_apps has visited
  seen_names,           \* parse_apps' local seen_names
  history,              \* the bytes of the History Log, ~/.local/share/rapp_history
  time,                 \* GetTime() at the last tick, in hundredths of a second
  key_down,             \* IsKeyDown(key) at the last tick, for one action's key
  mod_down,             \* IsKeyDown of the modifier that gates the action
  repeat_active,        \* the action's pcursor_<action>_repeat_active
  last_press_time,      \* the action's last_pcursor_<action>_press_time
  fired,                \* how many times the action ran in the last tick
  press_time            \* GetTime() at the tick that found the key go down

vars == << apps, tree, ranks, prompt, pcursor, filtered_apps, no_matches,
           draw_all_apps, lcursor, visible_start_idx, visible_end_idx,
           lcursor_visible, scroll_offset, apps_len, launched_application, child,
           pc, old_len, status, recomputed, ed_a, ed_b, ed_ret, q_target, q_max,
           q_ret, entries, dir_pos, seen_names, history, time, key_down, mod_down,
           repeat_active, last_press_time, fired, press_time >>

-----------------------------------------------------------------------------
(* Characters and strings *)

Min(x, y) == IF x <= y THEN x ELSE y
Max(x, y) == IF x >= y THEN x ELSE y

\* isspace(3) in the C locale: space, \t, \n, \v, \f, \r
isspace(c) == c = 32 \/ (c >= 9 /\ c <= 13)

\* tolower(3) in the C locale
tolower(c) == IF c >= 65 /\ c <= 90 THEN c + 32 ELSE c

\* for (auto &c: name) c = tolower(c);
lower(s) == [k \in 1..Len(s) |-> tolower(s[k])]

\* Every string over alphabet of length at most n
RECURSIVE StrUpTo(_, _)
StrUpTo(alphabet, n) ==
  IF n = 0 THEN { <<>> }
  ELSE LET shorter == StrUpTo(alphabet, n - 1)
       IN  shorter \cup { Append(s, c) : s \in { t \in shorter : Len(t) = n - 1 }, c \in alphabet }

\* std::string::find(needle) != npos
Contains(hay, needle) ==
  \E k \in 0..(Len(hay) - Len(needle)) : SubSeq(hay, k + 1, k + Len(needle)) = needle

\* The sequence without the elements at 0-based positions [pos, pos + n):
\* std::string::erase(pos, n) for pos <= size (n is clipped to the end)
Erase(s, pos, n) ==
  SubSeq(s, 1, pos) \o SubSeq(s, pos + Min(n, Len(s) - pos) + 1, Len(s))

\* std::string::insert(pos, t) for pos <= size
Insert(s, pos, t) == SubSeq(s, 1, pos) \o t \o SubSeq(s, pos + 1, Len(s))

Range(s) == { s[k] : k \in 1..Len(s) }

-----------------------------------------------------------------------------
(* BKTree::edit_distance_: Levenshtein distance with two rolling rows *)

Min3(x, y, z) == Min(x, Min(y, z))

\* A mutated inner loop: the insertion term curr[j - 1] + 1 is left out
RECURSIVE FillRowNoInsertion(_, _, _, _, _, _)
FillRowNoInsertion(a, b, i, prev, curr, j) ==
  IF j > Len(b) THEN curr
  ELSE LET cost == IF a[i] = b[j] THEN 0 ELSE 1
           v == Min(prev[j] + 1, prev[j - 1] + cost)
       IN  FillRowNoInsertion(a, b, i, prev, [curr EXCEPT ![j] = v], j + 1)

\* The inner loop over j of row i: curr[j] for j = jj..m, curr[0..jj-1] done
RECURSIVE FillRow(_, _, _, _, _, _)
FillRow(a, b, i, prev, curr, j) ==
  IF j > Len(b) THEN curr
  ELSE LET cost == IF a[i] = b[j] THEN 0 ELSE 1
           v == Min3(prev[j] + 1, curr[j - 1] + 1, prev[j - 1] + cost)
       IN  FillRow(a, b, i, prev, [curr EXCEPT ![j] = v], j + 1)

\* The outer loop over i = ii..n; prev.swap(curr) ends each row
RECURSIVE Rows(_, _, _, _, _)
Rows(a, b, i, prev, curr) ==
  IF i > Len(a) THEN prev[Len(b)]
  ELSE LET filled == FillRow(a, b, i, prev, [curr EXCEPT ![0] = i], 1)
       IN  Rows(a, b, i + 1, filled, prev)

edit_distance_(a, b) ==
  LET n == Len(a)
      m == Len(b)
  IN  IF n = 0 THEN m
      ELSE IF m = 0 THEN n
      ELSE Rows(a, b, 1, [j \in 0..m |-> j], [j \in 0..m |-> 0])

\* edit_distance(const std::string &s, size_t idx)
edit_distance_s(store, s, idx) == edit_distance_(s, store[idx + 1].name)

\* edit_distance(size_t a, size_t b)
edit_distance_i(store, x, y) == edit_distance_(store[x + 1].name, store[y + 1].name)

-----------------------------------------------------------------------------
(* BKTree: struct Node { idx; children }, insert, query, query_rec.  A node *)
(* is named by the Entry Store index it holds (each index is inserted      *)
(* once); edges holds <<parent, dist, child>> for children[dist] == child. *)

NULL == -1

EmptyTree == [root |-> NULL, edges |-> {}]

\* node->children.find(d) != node->children.end()
HasChild(t, node, d) == \E e \in t.edges : e[1] = node /\ e[2] = d

\* node->children[d]
Child(t, node, d) == (CHOOSE e \in t.edges : e[1] = node /\ e[2] = d)[3]

\* The descent of insert from curr (the while (true) loop)
RECURSIVE InsertFrom(_, _, _, _)
InsertFrom(store, t, curr, idx) ==
  LET dist == edit_distance_i(store, idx, curr)
  IN  IF ~HasChild(t, curr, dist)
      THEN [t EXCEPT !.edges = @ \cup { <<curr, dist, idx>> }]
      ELSE InsertFrom(store, t, Child(t, curr, dist), idx)

\* void insert(size_t idx)
insert(store, t, idx) ==
  IF t.root = NULL THEN [t EXCEPT !.root = idx]
  ELSE InsertFrom(store, t, t.root, idx)

\* A mutated band: the upper end dist + max_dist is left out
QueryBandShort(dist, max_dist) == (dist - max_dist)..(dist + max_dist - 1)

\* for (int i = dist - max_dist; i <= dist + max_dist; ++i)
QueryBand(dist, max_dist) == (dist - max_dist)..(dist + max_dist)

RECURSIVE query_rec(_, _, _, _, _, _)
RECURSIVE query_children(_, _, _, _, _, _, _, _)

\* The for loop of query_rec from i on, over the band computed from dist
query_children(store, t, node, target, max_dist, dist, i, ret) ==
  IF i \notin QueryBand(dist, max_dist) THEN ret
  ELSE IF HasChild(t, node, i)
       THEN query_children(store, t, node, target, max_dist, dist, i + 1,
                           query_rec(store, t, Child(t, node, i), target, max_dist, ret))
       ELSE query_children(store, t, node, target, max_dist, dist, i + 1, ret)

\* void query_rec(Node *node, target, max_dist, ret): the value of ret after
query_rec(store, t, node, target, max_dist, ret) ==
  IF node = NULL THEN ret
  ELSE LET dist == edit_distance_s(store, target, node)
           emitted == IF dist <= max_dist THEN Append(ret, node) ELSE ret
       IN  query_children(store, t, node, target, max_dist, dist, dist - max_dist, emitted)

\* std::vector<int> query(target, maxDist)
query(store, t, target, maxDist) == query_rec(store, t, t.root, target, maxDist, <<>>)

\* main: for (size_t i = 0; i < apps.size(); ++i) tree.insert(i);
RECURSIVE BuildFrom(_, _, _)
BuildFrom(store, t, i) ==
  IF i >= Len(store) THEN t ELSE BuildFrom(store, insert(store, t, i), i + 1)

BuildTree(store) == BuildFrom(store, EmptyTree, 0)

\* The Entry Store indices the tree holds
TreeNodes(t) == (IF t.root = NULL THEN {} ELSE { t.root }) \cup { e[3] : e \in t.edges }

-----------------------------------------------------------------------------
(* Descriptor files: file_t::read, split, app_t::parse.  A file of a search *)
(* directory is [desktop, readable, text]: whether its extension is        *)
(* .desktop, whether open/fstat/mmap succeed, and its bytes.               *)

npos == -1

\* sv.find(delim, start)
FindFrom(sv, delim, start) ==
  LET hits == { k \in start..(Len(sv) - 1) : sv[k + 1] = delim }
  IN  IF hits = {} THEN npos ELSE CHOOSE k \in hits : \A h \in hits : k <= h

\* The while loop of split from start on, and the trailing piece
RECURSIVE split_from(_, _, _)
split_from(sv, delim, start) ==
  LET pos == FindFrom(sv, delim, start)
  IN  IF pos = npos
      THEN IF start < Len(sv) THEN << SubSeq(sv, start + 1, Len(sv)) >> ELSE <<>>
      ELSE << SubSeq(sv, start + 1, pos) >> \o split_from(sv, delim, pos + 1)

\* split(sv, delim)
split(sv, delim) == split_from(sv, delim, 0)

NameKey == << 78, 97, 109, 101, 61 >>    \* "Name="
ExecKey == << 69, 120, 101, 99, 61 >>    \* "Exec="

\* line.find(key) == 0
StartsWith(line, key) == Len(line) >= Len(key) /\ SubSeq(line, 1, Len(key)) = key

\* line.substr(5)
substr5(line) == SubSeq(line, 6, Len(line))

\* The for loop of app_t::parse over the lines from the k-th on
RECURSIVE parse_lines(_, _, _, _)
parse_lines(lines, k, name, exec) ==
  IF k > Len(lines) \/ (name # <<>> /\ exec # <<>>)
  THEN [name |-> name, exec |-> exec]
  ELSE IF StartsWith(lines[k], NameKey)
       THEN parse_lines(lines, k + 1, substr5(lines[k]), exec)
       ELSE IF StartsWith(lines[k], ExecKey)
            THEN parse_lines(lines, k + 1, name, substr5(lines[k]))
            ELSE parse_lines(lines, k + 1, name, exec)

\* app_t::parse(file_path, &ok): the app_t returned and the value left in ok
\* (file_t::read gives size 0 for a file it cannot read and for an empty one)
parse(file) ==
  IF ~file.readable THEN [name |-> <<>>, exec |-> <<>>, ok |-> FALSE]
  ELSE IF Len(file.text) = 0 THEN [name |-> <<>>, exec |-> <<>>, ok |-> TRUE]
  ELSE LET r == parse_lines(split(file.text, 10), 1, <<>>, <<>>)
       IN  [name |-> r.name, exec |-> r.exec, ok |-> TRUE]

\* Whether the body of parse_apps' loop stores the descriptor: it has the
\* extension, parses, and has a name and an exec
Storable(file) ==
  /\ file.desktop
  /\ LET r == parse(file) IN r.ok /\ r.name # <<>> /\ r.exec # <<>>

\* A mutated test: every name counts as new
NotSeenAlways(seen, name) == TRUE

\* if (seen_names.count(name) == 0)
NotSeen(seen, name) == name \notin seen

-----------------------------------------------------------------------------
(* The query engine: filter_apps *)

\* The literal threshold of tree.query(prompt, 4)
FUZZY_MAX_DIST == 4

\* ranks[name] as the comparator reads it: operator[] gives 0 for an absent key
RankOf(rk, name) == IF name \in DOMAIN rk THEN rk[name] ELSE 0

\* A mutated first pass: no substring match is collected
RECURSIVE SubstringPassNone(_, _, _)
SubstringPassNone(store, p, i) == <<>>

\* The first loop of filter_apps from index i on: the entries whose name
\* contains the prompt, in Entry Store order (they are also the set seen)
RECURSIVE SubstringPass(_, _, _)
SubstringPass(store, p, i) ==
  IF i >= Len(store) THEN <<>>
  ELSE IF Contains(store[i + 1].name, p)
       THEN << i >> \o SubstringPass(store, p, i + 1)
       ELSE SubstringPass(store, p, i + 1)

\* A mutated second loop: every match is appended, seen or not
AppendSeenToo(matches, k, seen, fa) == fa \o SubSeq(matches, k, Len(matches))

\* The second loop over the matches from the k-th on: a match is appended
\* unless the first pass saw it (seen is not extended here)
RECURSIVE AppendUnseen(_, _, _, _)
AppendUnseen(matches, k, seen, fa) ==
  IF k > Len(matches) THEN fa
  ELSE AppendUnseen(matches, k + 1, seen,
                    IF matches[k] \in seen THEN fa ELSE Append(fa, matches[k]))

\* A mutated second pass: the fuzzy matches are not appended
FuzzyPassSkipped(store, t, p, fa) == fa

\* for (const auto match: tree.query(prompt, 4)) ...
FuzzyPass(store, t, p, fa) ==
  AppendUnseen(query(store, t, p, FUZZY_MAX_DIST), 1, Range(fa), fa)

\* filtered_apps before the sort
Merged(store, t, p) == FuzzyPass(store, t, p, SubstringPass(store, p, 0))

Orderings(n) ==
  { pi \in [1..n -> 1..n] : \A x, y \in 1..n : x # y => pi[x] # pi[y] }

\* The comparator of the sort: ranks[apps[a].name] > ranks[apps[b].name]
RankedBefore(store, rk, x, y) ==
  RankOf(rk, store[x + 1].name) > RankOf(rk, store[y + 1].name)

\* std::sort(filtered_apps.begin(), filtered_apps.end(), comparator): the
\* results the call may leave.  std::sort is not a stable sort: it orders
\* the range by the comparator and leaves the order of equivalent elements
\* unspecified, so every permutation in which no element is ranked before
\* an earlier one is a possible result.
SortOutcomes(store, rk, fa) ==
  { sorted \in { [k \in 1..Len(fa) |-> fa[pi[k]]] : pi \in Orderings(Len(fa)) } :
      \A x, y \in 1..Len(fa) : x < y => ~RankedBefore(store, rk, sorted[y], sorted[x]) }

\* ranks after the sort: the comparator's operator[] inserts a count of 0 for
\* every compared name that was absent (a range of two or more elements has
\* each element compared at least once)
RanksAfterSort(store, rk, fa) ==
  IF Len(fa) < 2 THEN rk
  ELSE [ nm \in DOMAIN rk \cup { store[i + 1].name : i \in Range(fa) } |-> RankOf(rk, nm) ]

\* A mutated tail of filter_apps: scroll_offset is not reset
ResetNavigatorKeepsScroll ==
  /\ lcursor' = 0
  /\ UNCHANGED scroll_offset
  /\ lcursor_visible' = TRUE

\* lcursor ^= lcursor; scroll_offset = 0.0; lcursor_visible = true;
ResetNavigator ==
  /\ lcursor' = 0
  /\ scroll_offset' = 0
  /\ lcursor_visible' = TRUE

\* The navigator state a call of filter_apps starts from
NavigatorWas == IF lcursor # 0 \/ scroll_offset # 0 THEN "moved" ELSE "at_rest"

\* filter_apps(), run when the prompt holds p
filter_apps(p) ==
  /\ IF p # <<>>
     THEN \E merged \in { Merged(apps, tree, p) } :
              /\ IF DOMAIN ranks # {}
                 THEN /\ filtered_apps' \in SortOutcomes(apps, ranks, merged)
                      /\ ranks' = RanksAfterSort(apps, ranks, merged)
                 ELSE /\ filtered_apps' = merged
                      /\ ranks' = ranks
              /\ no_matches' = (merged = <<>>)
     ELSE /\ no_matches' = FALSE
          /\ filtered_apps' = <<>>
          /\ ranks' = ranks
  /\ ResetNavigator

\* parse_apps leaves filtered_apps == [0, apps.size())
Identity(n) == [k \in 1..n |-> k - 1]

\* Names, commands and history lines used as inputs
firefox == << 102, 105, 114, 101, 102, 111, 120 >>
files == << 102, 105, 108, 101, 115 >>
nautilus == << 110, 97, 117, 116, 105, 108, 117, 115 >>
filezilla == << 102, 105, 108, 101, 122, 105, 108, 108, 97 >>
gimp == << 103, 105, 109, 112 >>
firefox_exec == << 102, 105, 114, 101, 102, 111, 120, 32, 37, 117 >>
nautilus_exec == << 110, 97, 117, 116, 105, 108, 117, 115, 32, 37, 117 >>
plain_exec == << 120 >>

-----------------------------------------------------------------------------
(* size_t values.  A size_t is held as the integer congruent to it modulo  *)
(* 2^64 that is nearest 0: -1 stands for SIZE_MAX, the value pcursor-- and *)
(* apps_len - 1 give at 0.  (int) of such a value is the integer itself.   *)

\* a < b as size_t
ULess(x, y) == IF (x >= 0) = (y >= 0) THEN x < y ELSE y < 0

\* std::min(a, b) on size_t
UMin(x, y) == IF ULess(y, x) THEN y ELSE x

\* pos <= size() as std::string::insert and erase test it (they throw
\* std::out_of_range otherwise, which nothing catches: std::terminate)
PosInString(pos, s) == pos >= 0 /\ pos <= Len(s)

\* Float division followed by truncation toward zero
TruncDiv(x, y) == IF x >= 0 THEN x \div y ELSE -((-x) \div y)

\* (size_t) of a float with the integral value x.  A negative value is out
\* of range, which is undefined: the conversion instruction gives the value
\* modulo 2^64 (x86-64) or 0 (saturating hardware).
FloatToSize(x) == IF x >= 0 THEN { x } ELSE { x, 0 }

\* The values isspace(prompt[i]) can take.  prompt[size()] is the terminator;
\* an index outside [0, size()] is an out-of-bounds read, any byte.
SpaceAt(s, i) ==
  IF i >= 0 /\ i < Len(s) THEN { isspace(s[i + 1]) }
  ELSE IF i = Len(s) THEN { FALSE }
  ELSE BOOLEAN

\* while (r > floor && isspace(prompt[--r])); from r: the values r can end with
RECURSIVE SkipSpacesLeft(_, _, _)
SkipSpacesLeft(s, r, floor) ==
  IF r > floor
  THEN UNION { IF sp THEN SkipSpacesLeft(s, r - 1, floor) ELSE { r - 1 } : sp \in SpaceAt(s, r - 1) }
  ELSE { r }

\* while (r > floor && !isspace(prompt[--r])); from r
RECURSIVE SkipWordLeft(_, _, _)
SkipWordLeft(s, r, floor) ==
  IF r > floor
  THEN UNION { IF sp THEN { r - 1 } ELSE SkipWordLeft(s, r - 1, floor) : sp \in SpaceAt(s, r - 1) }
  ELSE { r }

\* while (l < n && isspace(prompt[l++])); from l
RECURSIVE SkipSpacesRight(_, _)
SkipSpacesRight(s, l) ==
  IF l < Len(s)
  THEN UNION { IF sp THEN SkipSpacesRight(s, l + 1) ELSE { l + 1 } : sp \in SpaceAt(s, l) }
  ELSE { l }

\* while (l < n && !isspace(prompt[l++])); from l
RECURSIVE SkipWordRight(_, _)
SkipWordRight(s, l) ==
  IF l < Len(s)
  THEN UNION { IF sp THEN { l + 1 } ELSE SkipWordRight(s, l + 1) : sp \in SpaceAt(s, l) }
  ELSE { l }

\* trim(str, len): str without its leading and trailing whitespace
RECURSIVE TrimLeft(_)
TrimLeft(s) == IF s # <<>> /\ isspace(Head(s)) THEN TrimLeft(Tail(s)) ELSE s

RECURSIVE TrimRight(_)
TrimRight(s) ==
  IF s # <<>> /\ isspace(s[Len(s)]) THEN TrimRight(SubSeq(s, 1, Len(s) - 1)) ELSE s

trim(s) == TrimRight(TrimLeft(s))

-----------------------------------------------------------------------------
(* Layout constants *)

FONT_SIZE == 30
PADDING == 20
WINDOW_H == 600
PROMPT_H == 40
LINE_H == FONT_SIZE + 10
SCROLL_SPEED == 50

-----------------------------------------------------------------------------
(* Values of the variables a specification does not use *)

LoopIdle ==
  /\ prompt = <<>> /\ pcursor = 0 /\ filtered_apps = <<>>
  /\ no_matches = FALSE /\ draw_all_apps = FALSE
  /\ lcursor = 0 /\ visible_start_idx = 0 /\ visible_end_idx = 0
  /\ lcursor_visible = FALSE /\ scroll_offset = 0 /\ apps_len = 0
  /\ launched_application = <<>> /\ child = "none"
  /\ old_len = 0 /\ status = "running" /\ recomputed = "no"

StoreIdle == apps = <<>> /\ tree = EmptyTree /\ ranks = <<>>

DistIdle == ed_a = <<>> /\ ed_b = <<>> /\ ed_ret = <<>>

QueryIdle == q_target = <<>> /\ q_max = 0 /\ q_ret = <<>>

ParseIdle == entries = <<>> /\ dir_pos = 0 /\ seen_names = {}

HistoryIdle == history = <<>>

RepeatIdle ==
  /\ time = 0 /\ key_down = FALSE /\ mod_down = FALSE
  /\ repeat_active = FALSE /\ last_press_time = 0 /\ fired = 0 /\ press_time = 0

loopVars == << prompt, pcursor, filtered_apps, no_matches, draw_all_apps,
               lcursor, visible_start_idx, visible_end_idx, lcursor_visible,
               scroll_offset, apps_len, launched_application, child, old_len,
               status, recomputed >>
distVars == << ed_a, ed_b, ed_ret >>
queryVars == << q_target, q_max, q_ret >>
parseVars == << entries, dir_pos, seen_names >>
historyVars == << history >>
repeatVars ==
  << time, key_down, mod_down, repeat_active, last_press_time, fired, press_time >>

-----------------------------------------------------------------------------
(* SpecDist: BKTree::edit_distance_ applied to every pair of bounded strings *)

EdMaxLen == 3
EdAlphabet == { 97, 98, 99 }
EdStrings == StrUpTo(EdAlphabet, EdMaxLen)

InitDist ==
  /\ ed_a \in EdStrings /\ ed_b \in EdStrings /\ ed_ret = <<>>
  /\ pc = "call"
  /\ StoreIdle /\ LoopIdle /\ QueryIdle /\ ParseIdle /\ HistoryIdle /\ RepeatIdle

\* The calls edit_distance_(a, b), (b, a), (a, a) and ("", a)
EditDistanceCall ==
  /\ pc = "call"
  /\ pc' = "returned"
  /\ ed_ret' = [ ab |-> edit_distance_(ed_a, ed_b),
                 ba |-> edit_distance_(ed_b, ed_a),
                 aa |-> edit_distance_(ed_a, ed_a),
                 ea |-> edit_distance_(<<>>, ed_a),
                 ae |-> edit_distance_(ed_a, <<>>) ]
  /\ UNCHANGED << ed_a, ed_b, apps, tree, ranks, loopVars, queryVars, parseVars, historyVars, repeatVars >>

NextDist == EditDistanceCall

SpecDist == InitDist /\ [][NextDist]_vars

\* C8: edit_distance_ is symmetric, is 0 on equal strings, and gives the
\* other string's length when one operand is empty.
C8_EditDistanceLaws ==
  pc = "returned" =>
    /\ ed_ret.ab = ed_ret.ba
    /\ ed_ret.aa = 0
    /\ ed_ret.ea = Len(ed_a)
    /\ ed_ret.ae = Len(ed_a)

\* A call on two different non-empty strings of different lengths has returned
C8_Witness ==
  /\ pc = "returned"
  /\ Len(ed_a) = 2 /\ Len(ed_b) = 3 /\ ed_ret.ab = 2

-----------------------------------------------------------------------------
(* SpecTree: the index is built over a store of distinct names, one insert *)
(* per step as in main, and then queried once.                              *)

TreeMaxApps == 3
TreeMaxDist == 2
\* "a", "b", "aa", "ab", "ba", "bb", "abb"
TreeNames == { <<97>>, <<98>>, <<97, 97>>, <<97, 98>>, <<98, 97>>, <<98, 98>>,
               <<97, 98, 98>> }
\* "", "a", "b", "ab", "bb", "aab", "abba", "bbbb"
TreeTargets == { <<>>, <<97>>, <<98>>, <<97, 98>>, <<98, 98>>, <<97, 97, 98>>,
                 <<97, 98, 98, 97>>, <<98, 98, 98, 98>> }

\* Entry Stores of at most n entries with pairwise distinct names
RECURSIVE StoresUpTo(_, _)
StoresUpTo(names, n) ==
  IF n = 0 THEN { <<>> }
  ELSE LET shorter == StoresUpTo(names, n - 1)
       IN  shorter \cup
           { Append(st, [name |-> nm, exec |-> <<120>>]) :
               st \in { u \in shorter : Len(u) = n - 1 },
               nm \in names } 

DistinctNames(store) ==
  \A x, y \in 1..Len(store) : x # y => store[x].name # store[y].name

TreeStores == { st \in StoresUpTo(TreeNames, TreeMaxApps) : DistinctNames(st) }

InitTree ==
  /\ apps \in TreeStores /\ tree = EmptyTree /\ ranks = <<>>
  /\ pc = "build"
  /\ QueryIdle /\ LoopIdle /\ DistIdle /\ ParseIdle /\ HistoryIdle /\ RepeatIdle

\* One iteration of main's loop: tree.insert(i)
TreeInsert ==
  LET i == Cardinality(TreeNodes(tree))
  IN  /\ pc = "build"
      /\ i < Len(apps)
      /\ tree' = insert(apps, tree, i)
      /\ UNCHANGED << pc, apps, ranks, loopVars, distVars, queryVars, parseVars, historyVars, repeatVars >>

\* One call tree.query(target, maxDist) on the finished index
TreeQuery ==
  /\ pc = "build"
  /\ Cardinality(TreeNodes(tree)) = Len(apps)
  /\ pc' = "returned"
  /\ \E target \in TreeTargets, maxDist \in 0..TreeMaxDist :
       /\ q_target' = target
       /\ q_max' = maxDist
       /\ q_ret' = query(apps, tree, target, maxDist)
  /\ UNCHANGED << apps, tree, ranks, loopVars, distVars, parseVars, historyVars, repeatVars >>

NextTree == TreeInsert \/ TreeQuery

SpecTree == InitTree /\ [][NextTree]_vars

\* The brute-force answer { i : edit_distance(target, apps[i].name) <= D }
BruteForce(store, target, maxDist) ==
  { i \in 0..(Len(store) - 1) : edit_distance_(target, store[i + 1].name) <= maxDist }

\* C2: the indices query returns are exactly the entries within maxDist of
\* the target, whatever the store of distinct names the index was built on.
C2_BKTreeComplete ==
  pc = "returned" => Range(q_ret) = BruteForce(apps, q_target, q_max)

\* A query over a three-level tree that pruned a subtree and still found an
\* entry below the root
C2_Witness ==
  /\ pc = "returned"
  /\ Len(apps) = 3
  /\ \E e, f \in tree.edges : e[3] = f[1]
  /\ Len(q_ret) >= 1 /\ Len(q_ret) < Len(apps)
  /\ tree.root \notin Range(q_ret)

-----------------------------------------------------------------------------
(* SpecParse: parse_apps over a listing of the search directories, one     *)
(* directory entry per step.                                                *)

ParseMaxEntries == 3

\* "Name=A\nExec=x\n", "Name=a\nExec=y", "Name=b\nExec=x\n", "Name=A\n",
\* "Exec=y\n", "Name=A\nName=b\nExec=y\n", and the empty file
FileTexts ==
  { NameKey \o <<65, 10>> \o ExecKey \o <<120, 10>>,
    NameKey \o <<97, 10>> \o ExecKey \o <<121>>,
    NameKey \o <<98, 10>> \o ExecKey \o <<120, 10>>,
    NameKey \o <<65, 10>>,
    ExecKey \o <<121, 10>>,
    NameKey \o <<65, 10>> \o NameKey \o <<98, 10>> \o ExecKey \o <<121, 10>>,
    <<>> }

DirFiles ==
  { [desktop |-> TRUE, readable |-> TRUE, text |-> t] : t \in FileTexts }
  \cup { [desktop |-> FALSE, readable |-> TRUE, text |-> NameKey \o <<98, 10>> \o ExecKey \o <<121, 10>>],
         [desktop |-> TRUE, readable |-> FALSE, text |-> <<>>] }

RECURSIVE ListingsUpTo(_)
ListingsUpTo(n) ==
  IF n = 0 THEN { <<>> }
  ELSE LET shorter == ListingsUpTo(n - 1)
       IN  shorter \cup { Append(l, f) : l \in { u \in shorter : Len(u) = n - 1 }, f \in DirFiles }

InitParse ==
  /\ entries \in ListingsUpTo(ParseMaxEntries)
  /\ dir_pos = 0 /\ seen_names = {}
  /\ pc = "parse_apps"
  /\ StoreIdle /\ LoopIdle /\ DistIdle /\ QueryIdle /\ HistoryIdle /\ RepeatIdle

\* One iteration of parse_apps' loop over a directory entry
ParseAppsStep ==
  /\ pc = "parse_apps"
  /\ dir_pos < Len(entries)
  /\ dir_pos' = dir_pos + 1
  /\ LET e == entries[dir_pos + 1]
         r == parse(e)
         name == lower(r.name)
     IN  IF e.desktop /\ r.ok /\ name # <<>> /\ r.exec # <<>> /\ NotSeen(seen_names, name)
         THEN /\ apps' = Append(apps, [name |-> name, exec |-> r.exec])
              /\ seen_names' = seen_names \cup { name }
              /\ filtered_apps' = Append(filtered_apps, Len(apps))
         ELSE UNCHANGED << apps, seen_names, filtered_apps >>
  /\ UNCHANGED << pc, entries, tree, ranks, prompt, pcursor, no_matches, draw_all_apps,
                  lcursor, visible_start_idx, visible_end_idx, lcursor_visible,
                  scroll_offset, apps_len, launched_application, child, old_len, status,
                  recomputed, distVars, queryVars, historyVars, repeatVars >>

NextParse == ParseAppsStep

SpecParse == InitParse /\ [][NextParse]_vars

\* The visited descriptors (files with the extension) whose lowercased name is nm
Normalizing(nm) ==
  { k \in 1..dir_pos : entries[k].desktop /\ parse(entries[k]).name # <<>>
                        /\ lower(parse(entries[k]).name) = nm }

\* The visited files the loop body stores when their name is new, with name nm
StorableAs(nm) ==
  { k \in 1..dir_pos : Storable(entries[k]) /\ lower(parse(entries[k]).name) = nm }

First(S) == CHOOSE k \in S : \A h \in S : k <= h

NoDuplicateNoEmpty ==
  /\ \A x, y \in 1..Len(apps) : x # y => apps[x].name # apps[y].name
  /\ \A x \in 1..Len(apps) : apps[x].name # <<>> /\ apps[x].exec # <<>>
  /\ \A x \in 1..Len(apps) : apps[x].name = lower(apps[x].name)

\* C9 as stated: no two entries share a lowercased name, none has an empty
\* name or exec, and the entry stored for a name is the first descriptor in
\* discovery order that normalizes to that name.
C9_FirstDescriptorStored ==
  /\ NoDuplicateNoEmpty
  /\ \A x \in 1..Len(apps) :
       /\ Normalizing(apps[x].name) # {}
       /\ apps[x].exec = parse(entries[First(Normalizing(apps[x].name))]).exec

\* C9 amended: the entry stored for a name is the first descriptor in discovery
\* order that normalizes to that name AND has a non-empty exec (descriptors
\* without an exec are discarded before the duplicate test and do not claim
\* the name); exactly one entry is stored for each such name.
C9_FirstStorableStored ==
  /\ NoDuplicateNoEmpty
  /\ \A x \in 1..Len(apps) :
       /\ StorableAs(apps[x].name) # {}
       /\ apps[x].exec = parse(entries[First(StorableAs(apps[x].name))]).exec
  /\ \A k \in 1..dir_pos :
       Storable(entries[k]) =>
         \E x \in 1..Len(apps) : apps[x].name = lower(parse(entries[k]).name)
  /\ filtered_apps = [x \in 1..Len(apps) |-> x - 1]

\* A later descriptor of an already stored name has been visited and dropped
C9_Witness ==
  /\ dir_pos = Len(entries)
  /\ \E x \in 1..Len(apps) :
       /\ Cardinality(StorableAs(apps[x].name)) >= 2
       /\ \E k \in StorableAs(apps[x].name) : parse(entries[k]).exec # apps[x].exec

-----------------------------------------------------------------------------
(* SpecFilter: one recompute, filter_apps, of the view of a loaded Entry    *)
(* Store for a prompt, under a loaded Rank Table.                           *)

FilterStores ==
  { << [name |-> firefox, exec |-> firefox_exec], [name |-> files, exec |-> nautilus_exec] >>,
    << [name |-> firefox, exec |-> firefox_exec], [name |-> nautilus, exec |-> nautilus_exec] >>,
    << [name |-> files, exec |-> nautilus_exec], [name |-> filezilla, exec |-> plain_exec],
       [name |-> firefox, exec |-> firefox_exec], [name |-> gimp, exec |-> plain_exec] >>,
    <<>> }

FilterRanks ==
  { <<>>,
    (files :> 3) @@ (firefox :> 1),
    (firefox :> 2),
    (gimp :> 1) @@ (files :> 1),
    (nautilus :> 1) }

\* "f", "fi", "fire", "firefix", "files", "x", "il", "gimp", "FIRE", " ", "nautilus-"
FilterPrompts ==
  { << 102 >>, << 102, 105 >>, << 102, 105, 114, 101 >>,
    << 102, 105, 114, 101, 102, 105, 120 >>, files, << 120 >>, << 105, 108 >>, gimp,
    << 70, 73, 82, 69 >>, << 32 >>, nautilus \o << 45 >> }

InitFilter ==
  /\ apps \in FilterStores
  /\ tree = BuildTree(apps)
  /\ ranks \in FilterRanks
  /\ prompt \in FilterPrompts
  /\ pcursor = Len(prompt)
  /\ filtered_apps = Identity(Len(apps))
  /\ no_matches = FALSE /\ draw_all_apps = FALSE
  /\ lcursor \in 0..1 /\ scroll_offset \in { 0, 50 }
  /\ visible_start_idx = 0 /\ visible_end_idx = 0 /\ lcursor_visible = TRUE
  /\ apps_len = Len(apps) /\ launched_application = <<>> /\ child = "none"
  /\ old_len = 0 /\ status = "running" /\ recomputed = "no"
  /\ pc = "filter"
  /\ DistIdle /\ QueryIdle /\ ParseIdle /\ HistoryIdle /\ RepeatIdle

\* The call filter_apps() for the prompt as it stands
FilterApps ==
  /\ pc = "filter"
  /\ pc' = "filtered"
  /\ filter_apps(prompt)
  /\ recomputed' = NavigatorWas
  /\ UNCHANGED << apps, tree, prompt, pcursor, draw_all_apps, visible_start_idx,
                  visible_end_idx, apps_len, launched_application, child, old_len, status,
                  distVars, queryVars, parseVars, historyVars, repeatVars >>

NextFilter == FilterApps

SpecFilter == InitFilter /\ [][NextFilter]_vars

\* C5: after filter_apps ran for a non-empty prompt, every entry whose name
\* contains the prompt is in filtered_apps, whatever ranks and the index give.
C5_SubstringPrecedence ==
  (pc = "filtered" /\ prompt # <<>>) =>
    \A i \in 0..(Len(apps) - 1) :
      Contains(apps[i + 1].name, prompt) => i \in Range(filtered_apps)

\* The prompt "f" is in "firefox" but 6 edits away from it, beyond the
\* threshold: the entry is in the view by the substring pass alone, under a
\* non-empty Rank Table
C5_Witness ==
  /\ pc = "filtered"
  /\ prompt = << 102 >>
  /\ DOMAIN ranks # {}
  /\ \E i \in Range(filtered_apps) :
       /\ apps[i + 1].name = firefox
       /\ edit_distance_(prompt, firefox) > FUZZY_MAX_DIST

PositionIn(seq, v) == CHOOSE k \in 1..Len(seq) : seq[k] = v

\* C6: with a non-empty Rank Table the view of a non-empty prompt is in
\* descending order of launch count, and entries of equal count keep the
\* order they had before the sort.
C6_RankingStable ==
  (pc = "filtered" /\ prompt # <<>> /\ DOMAIN ranks # {}) =>
    /\ \A x, y \in 1..Len(filtered_apps) :
         x < y => RankOf(ranks, apps[filtered_apps[x] + 1].name)
                    >= RankOf(ranks, apps[filtered_apps[y] + 1].name)
    /\ \A x, y \in 1..Len(filtered_apps) :
         (x < y /\ RankOf(ranks, apps[filtered_apps[x] + 1].name)
                     = RankOf(ranks, apps[filtered_apps[y] + 1].name))
           => PositionIn(Merged(apps, tree, prompt), filtered_apps[x])
                < PositionIn(Merged(apps, tree, prompt), filtered_apps[y])

ScenarioStore ==
  << [name |-> firefox, exec |-> firefox_exec], [name |-> files, exec |-> nautilus_exec] >>

\* C7 as stated: over [firefox, files] with no ranks, "fire" and "firefix"
\* each give the view [firefox].
C7_ScenarioOnlyFirefox ==
  (pc = "filtered" /\ apps = ScenarioStore /\ ranks = <<>>) =>
    /\ prompt = << 102, 105, 114, 101 >> => filtered_apps = << 0 >>
    /\ prompt = << 102, 105, 114, 101, 102, 105, 120 >> => filtered_apps = << 0 >>

\* C7 amended: "files" is within 4 edits of both prompts (2 from "fire", 4
\* from "firefix"), so each view is [firefox, files].
C7_ScenarioBoth ==
  (pc = "filtered" /\ apps = ScenarioStore /\ ranks = <<>>) =>
    /\ prompt = << 102, 105, 114, 101 >> => filtered_apps = << 0, 1 >>
    /\ prompt = << 102, 105, 114, 101, 102, 105, 120 >> => filtered_apps = << 0, 1 >>
    /\ edit_distance_(<< 102, 105, 114, 101 >>, files) = 2
    /\ edit_distance_(<< 102, 105, 114, 101, 102, 105, 120 >>, files) = 4
    /\ edit_distance_(<< 102, 105, 114, 101, 102, 105, 120 >>, firefox) = 1

\* The scenario's second recompute has run: "firefix" over [firefox, files]
C7_Witness ==
  /\ pc = "filtered" /\ apps = ScenarioStore /\ ranks = <<>>
  /\ prompt = << 102, 105, 114, 101, 102, 105, 120 >>
  /\ ~Contains(firefox, prompt)

-----------------------------------------------------------------------------
(* The tick of main's loop.  pc names the step the control ran last: "top" *)
(* is the head of the loop, "keys" the entry of handle_keys, then the      *)
(* handlers in the order handle_keys calls them.  Which keys are down and  *)
(* which repeat timers have expired is input: in a tick any handler may    *)
(* fire or not, but only in this order, and each at most once.  Handlers  *)
(* that abort the process (an uncaught exception, a fault) end the run     *)
(* with status "terminated".  "enter" and "click" are the two launches and *)
(* "exit" the closing of the window: each leaves the loop.                 *)

HandleOrder ==
  << "keys", "chars", "pop_back",
     "word_left", "word_right", "delete_word_right",
     "paste", "delete_char", "delete_line", "delete_whole_line", "delete_word_left",
     "start", "end", "left", "right", "up", "down",
     "visible" >>

Pos(x) == CHOOSE k \in 1..Len(HandleOrder) : HandleOrder[k] = x

InHandleKeys == status = "running" /\ pc \in Range(HandleOrder)

\* The handler x comes later in handle_keys than the step that ran last
Fires(x) == InHandleKeys /\ Pos(pc) < Pos(x)

\* The handlers inside if (IsKeyDown(KEY_LEFT_CONTROL) or ...) { ... }
InCtrlBlock(x) == Pos(x) >= Pos("paste") /\ Pos(x) < Pos("visible")

\* const auto old_len = filtered_apps.size(); it is taken after pop_back,
\* so a later handler finds it taken or takes it from the view as it stands
TakeOldLen ==
  old_len' = IF Pos(pc) <= Pos("pop_back") THEN Len(filtered_apps) ELSE old_len

\* What no handler of handle_keys writes
keysFrame ==
  UNCHANGED << apps, tree, draw_all_apps, apps_len, launched_application, child,
               distVars, queryVars, parseVars, historyVars, repeatVars >>

\* The handler left the prompt as p, the cursor as c, and called filter_apps
Recompute(p, c) ==
  /\ prompt' = p
  /\ pcursor' = c
  /\ filter_apps(p)
  /\ recomputed' = NavigatorWas
  /\ UNCHANGED << status, visible_start_idx, visible_end_idx >>

\* The handler left the prompt as p and the cursor as c without filter_apps
NoRecompute(p, c) ==
  /\ prompt' = p
  /\ pcursor' = c
  /\ recomputed' = "no"
  /\ UNCHANGED << status, filtered_apps, no_matches, ranks, lcursor, scroll_offset,
                  lcursor_visible, visible_start_idx, visible_end_idx >>

\* std::string::insert or erase threw std::out_of_range: the process aborts
Throw ==
  /\ status' = "terminated"
  /\ recomputed' = "no"
  /\ UNCHANGED << prompt, pcursor, filtered_apps, no_matches, ranks, lcursor,
                  scroll_offset, lcursor_visible, visible_start_idx, visible_end_idx >>

\* get_app(idx): the Entry Store indices the returned reference can be to.
\* An operator[] past the end of a vector is undefined: OutsideStore stands
\* for an object that is no entry of the store, and an index read from
\* outside filtered_apps can be any index at all.
OutsideStore == -1

AppsAt(i) == IF i >= 0 /\ i < Len(apps) THEN { i } ELSE { OutsideStore }

get_app(idx) ==
  IF no_matches
  THEN AppsAt(idx)
  ELSE IF idx >= 0 /\ idx < Len(filtered_apps)
       THEN AppsAt(filtered_apps[idx + 1])
       ELSE (0..(Len(apps) - 1)) \cup { OutsideStore }

\* Bounds of the exploration: the longest prompt, how far the prompt cursor
\* may run outside [0, len(prompt)] and how far the list cursor may run
MaxPrompt == 2
MaxOvershoot == 1
MaxList == 2

CursorCap(c) == c >= -MaxOvershoot /\ c <= MaxPrompt + MaxOvershoot

\* Inputs: the characters typed ('f', ' ', and '~', which the prompt
\* rejects), the clipboard contents, the wheel moves, the loaded stores and
\* Rank Tables
TypedChars == { 102, 32, 126 }

Clipboards == { << 102 >>, << 32, 102 >> }

WheelMoves == { -1, 0, 1 }

LoopStores == { ScenarioStore }

LoopRanks == { << >>, [n \in { files } |-> 1] }

\* main up to the loop: parse_apps has loaded the store and left the view
\* [0, apps.size()), the store is indexed, the ranks are loaded, and every
\* other global is zero-initialised
Init ==
  /\ apps \in LoopStores
  /\ tree = BuildTree(apps)
  /\ ranks \in LoopRanks
  /\ prompt = <<>> /\ pcursor = 0 /\ filtered_apps = Identity(Len(apps))
  /\ no_matches = FALSE /\ draw_all_apps = FALSE
  /\ lcursor = 0 /\ visible_start_idx = 0 /\ visible_end_idx = 0
  /\ lcursor_visible = FALSE /\ scroll_offset = 0 /\ apps_len = 0
  /\ launched_application = <<>> /\ child = "none"
  /\ old_len = 0 /\ status = "running" /\ recomputed = "no"
  /\ pc = "top"
  /\ DistIdle /\ QueryIdle /\ ParseIdle /\ HistoryIdle /\ RepeatIdle

\* while (!WindowShouldClose()) { apps_len = ...; draw_all_apps = ...;
TickStart ==
  /\ status = "running" /\ pc = "top"
  /\ pc' = "keys"
  /\ apps_len' = IF draw_all_apps THEN Len(apps) ELSE Len(filtered_apps)
  /\ draw_all_apps' = (filtered_apps = <<>> /\ ~no_matches)
  /\ recomputed' = "no"
  /\ UNCHANGED << apps, tree, ranks, prompt, pcursor, filtered_apps, no_matches,
                  lcursor, visible_start_idx, visible_end_idx, lcursor_visible,
                  scroll_offset, launched_application, child, old_len, status,
                  distVars, queryVars, parseVars, historyVars, repeatVars >>

\* One turn of the while (ch > 0) loop of handle_keys, for a character ch
\* of those the keyboard gives
TypeChar(chars) ==
  /\ InHandleKeys /\ Pos(pc) <= Pos("chars")
  /\ \E ch \in chars :
       /\ CursorCap(pcursor + 1)
       /\ IF ch >= 32 /\ ch <= 125
          THEN /\ Len(prompt) < MaxPrompt
               /\ IF PosInString(pcursor, prompt)
                  THEN Recompute(Insert(prompt, pcursor, << ch >>), pcursor + 1)
                  ELSE Throw
          ELSE Recompute(prompt, pcursor + 1)
  /\ pc' = "chars"
  /\ UNCHANGED old_len
  /\ keysFrame

InsertChar == TypeChar(TypedChars)

\* _pcursor::pop_back, on KEY_BACKSPACE
pop_back ==
  /\ Fires("pop_back")
  /\ IF prompt = <<>>
     THEN NoRecompute(prompt, pcursor)
     ELSE /\ CursorCap(pcursor - 1)
          /\ IF pcursor = Len(prompt)
             THEN Recompute(SubSeq(prompt, 1, Len(prompt) - 1), pcursor - 1)
             ELSE IF PosInString(pcursor, prompt)
                  THEN Recompute(Erase(prompt, pcursor, 1), pcursor - 1)
                  ELSE Throw
  /\ pc' = "pop_back"
  /\ UNCHANGED old_len
  /\ keysFrame

\* _pcursor::word_left, on Alt+B
word_left ==
  /\ Fires("word_left")
  /\ \E r1 \in SkipSpacesLeft(prompt, pcursor, 0) :
       \E r2 \in SkipWordLeft(prompt, r1, 0) :
         NoRecompute(prompt, Min(Len(prompt), IF r2 > 0 THEN r2 + 1 ELSE r2))
  /\ pc' = "word_left"
  /\ TakeOldLen
  /\ keysFrame

\* _pcursor::word_right, on Alt+F
word_right ==
  /\ Fires("word_right")
  /\ \E l1 \in SkipSpacesRight(prompt, pcursor) :
       \E l2 \in SkipWordRight(prompt, l1) :
         NoRecompute(prompt, l2)
  /\ pc' = "word_right"
  /\ TakeOldLen
  /\ keysFrame

\* _pcursor::delete_word_right, on Alt+D
delete_word_right ==
  /\ Fires("delete_word_right")
  /\ IF Len(prompt) = 0
     THEN NoRecompute(prompt, pcursor)
     ELSE \E l \in SkipSpacesRight(prompt, pcursor) :
            \E word_end \in SkipWordRight(prompt, l) :
              IF l < Len(prompt)
              THEN IF PosInString(pcursor, prompt)
                   THEN Recompute(Erase(prompt, pcursor, word_end - pcursor), pcursor)
                   ELSE Throw
              ELSE Recompute(prompt, pcursor)
  /\ pc' = "delete_word_right"
  /\ TakeOldLen
  /\ keysFrame

\* _pcursor::paste, on Ctrl+Y; ok is whether get_clipboard got a selection
paste ==
  /\ Fires("paste")
  /\ \E ok \in BOOLEAN, clipboard \in Clipboards :
       IF ok
       THEN /\ Len(prompt) + Len(trim(clipboard)) <= MaxPrompt
            /\ CursorCap(pcursor + Len(clipboard))
            /\ IF PosInString(pcursor, prompt)
               THEN Recompute(Insert(prompt, pcursor, trim(clipboard)),
                              pcursor + Len(clipboard))
               ELSE Throw
       ELSE NoRecompute(prompt, pcursor)
  /\ pc' = "paste"
  /\ TakeOldLen
  /\ keysFrame

\* _pcursor::delete_char, on Ctrl+D
delete_char ==
  /\ Fires("delete_char")
  /\ IF pcursor # Len(prompt)
     THEN IF PosInString(pcursor, prompt)
          THEN Recompute(Erase(prompt, pcursor, 1), pcursor)
          ELSE Throw
     ELSE Recompute(prompt, pcursor)
  /\ pc' = "delete_char"
  /\ TakeOldLen
  /\ keysFrame

\* _pcursor::delete_line, on Ctrl+K
delete_line ==
  /\ Fires("delete_line")
  /\ IF pcursor # Len(prompt)
     THEN IF PosInString(pcursor, prompt)
          THEN Recompute(Erase(prompt, pcursor, Len(prompt)), pcursor)
          ELSE Throw
     ELSE Recompute(prompt, pcursor)
  /\ pc' = "delete_line"
  /\ TakeOldLen
  /\ keysFrame

\* _pcursor::delete_whole_line, on Ctrl+Shift+K
delete_whole_line ==
  /\ Fires("delete_whole_line")
  /\ Recompute(<<>>, 0)
  /\ pc' = "delete_whole_line"
  /\ TakeOldLen
  /\ keysFrame

\* _pcursor::delete_word_left, on Ctrl+Backspace
delete_word_left ==
  /\ Fires("delete_word_left")
  /\ IF pcursor = 0
     THEN NoRecompute(prompt, pcursor)
     ELSE \E r \in SkipWordLeft(prompt, pcursor, 1) :
            IF PosInString(r, prompt)
            THEN Recompute(Erase(prompt, r, pcursor), r)
            ELSE Throw
  /\ pc' = "delete_word_left"
  /\ TakeOldLen
  /\ keysFrame

\* What the cursor motions of the prompt leave alone
motionFrame ==
  /\ recomputed' = "no"
  /\ UNCHANGED << prompt, status, filtered_apps, no_matches, ranks, lcursor,
                  scroll_offset, lcursor_visible, visible_start_idx, visible_end_idx >>

\* _pcursor::start, on Ctrl+A
start ==
  /\ Fires("start")
  /\ pcursor' = 0
  /\ pc' = "start"
  /\ motionFrame /\ TakeOldLen /\ keysFrame

\* _pcursor::end, on Ctrl+E
end ==
  /\ Fires("end")
  /\ pcursor' = Len(prompt)
  /\ pc' = "end"
  /\ motionFrame /\ TakeOldLen /\ keysFrame

\* _pcursor::left, on Ctrl+B
left ==
  /\ Fires("left")
  /\ pcursor' = IF pcursor # 0 THEN pcursor - 1 ELSE pcursor
  /\ CursorCap(pcursor')
  /\ pc' = "left"
  /\ motionFrame /\ TakeOldLen /\ keysFrame

\* _pcursor::right, on Ctrl+F
right ==
  /\ Fires("right")
  /\ pcursor' = IF ULess(pcursor, Len(prompt)) THEN pcursor + 1 ELSE pcursor
  /\ pc' = "right"
  /\ motionFrame /\ TakeOldLen /\ keysFrame

\* What the motions of the list cursor leave alone
listFrame ==
  /\ recomputed' = "no"
  /\ UNCHANGED << prompt, pcursor, status, filtered_apps, no_matches, ranks,
                  lcursor_visible, visible_start_idx, visible_end_idx >>

\* _pcursor::up, on Ctrl+P
up ==
  /\ Fires("up")
  /\ IF ~lcursor_visible
     THEN /\ lcursor' = visible_start_idx
          /\ UNCHANGED scroll_offset
     ELSE /\ lcursor' = Max(0, lcursor - 1)
          /\ scroll_offset' = IF ULess(lcursor', visible_start_idx)
                              THEN scroll_offset - LINE_H
                              ELSE scroll_offset
  /\ pc' = "up"
  /\ listFrame /\ TakeOldLen /\ keysFrame

\* _pcursor::down, on Ctrl+N
down ==
  /\ Fires("down")
  /\ IF ~lcursor_visible
     THEN /\ lcursor' = visible_start_idx
          /\ UNCHANGED scroll_offset
     ELSE /\ lcursor' = UMin(apps_len - 1, lcursor + 1)
          /\ lcursor' <= MaxList
          /\ scroll_offset' = IF ULess(visible_end_idx, lcursor')
                              THEN scroll_offset + LINE_H
                              ELSE scroll_offset
  /\ pc' = "down"
  /\ listFrame /\ TakeOldLen /\ keysFrame

\* The end of the Ctrl block of handle_keys:
\* if (filtered_apps.size() != old_len) { visible_start_idx = ...; ... }
\* The sizes differ only after a filter_apps of this tick, so scroll_offset
\* is within one LINE_H of 0 and scroll_offset + 520 is positive.
VisibleRange ==
  /\ Fires("visible")
  /\ TakeOldLen
  /\ IF Len(filtered_apps) # old_len'
     THEN /\ visible_start_idx' \in FloatToSize(TruncDiv(scroll_offset, LINE_H))
          /\ visible_end_idx' \in
               { v \div LINE_H :
                   v \in FloatToSize(scroll_offset + (WINDOW_H - PROMPT_H - LINE_H)) }
          /\ lcursor_visible' = (/\ ~ULess(lcursor, visible_start_idx')
                                 /\ ~ULess(visible_end_idx', lcursor))
     ELSE UNCHANGED << visible_start_idx, visible_end_idx, lcursor_visible >>
  /\ pc' = "visible"
  /\ recomputed' = "no"
  /\ UNCHANGED << prompt, pcursor, status, filtered_apps, no_matches, ranks,
                  lcursor, scroll_offset >>
  /\ keysFrame

\* handle_keys is past its Ctrl block: no handler of the block has run, or
\* the block has run to its end
PastCtrlBlock == InHandleKeys /\ (Pos(pc) < Pos("paste") \/ pc = "visible")

\* launch_application(exec); launched_application = name; for the entry v
\* that get_app returned.  fork() may fail: launch_application then only
\* reports it (perror) and returns as it does in the parent of a spawned
\* child.  A reference to no entry of the store is read as a name and a
\* command: the process faults.
Launch(v) ==
  IF v = OutsideStore
  THEN /\ status' = "terminated"
       /\ UNCHANGED << launched_application, child >>
  ELSE /\ \E forked \in BOOLEAN : child' = IF forked THEN "spawned" ELSE "fork_failed"
       /\ launched_application' = apps[v + 1].name
       /\ status' = "exited"

\* if (IsKeyPressed(KEY_ENTER)) { ... return true; } and main's goto end
Enter ==
  /\ PastCtrlBlock
  /\ \E v \in get_app(lcursor) : Launch(v)
  /\ pc' = "enter"
  /\ recomputed' = "no"
  /\ UNCHANGED << apps, tree, ranks, prompt, pcursor, filtered_apps, no_matches,
                  draw_all_apps, lcursor, visible_start_idx, visible_end_idx,
                  lcursor_visible, scroll_offset, apps_len, old_len,
                  distVars, queryVars, parseVars, historyVars, repeatVars >>

\* The rows the drawing loop of main reads with get_app
DrawnRows(scroll) ==
  IF no_matches
  THEN {}
  ELSE Max(0, TruncDiv(scroll, LINE_H))
         .. (Min(apps_len, TruncDiv(scroll + (WINDOW_H - PROMPT_H), LINE_H)) - 1)

\* The rest of the tick after handle_keys returned false: the mouse wheel
\* moves scroll_offset and the list is drawn.  The mouse button stays up
\* (Click is the tick with a click on a row; the scroll bar is not dragged).
\* Drawing a row whose get_app reads no entry of the store may fault.
Frame ==
  /\ PastCtrlBlock
  /\ \E wheel \in WheelMoves :
       scroll_offset' =
         Min(Max(scroll_offset - wheel * SCROLL_SPEED, 0),
             apps_len * LINE_H - (WINDOW_H - PROMPT_H) + PADDING)
  /\ \/ status' = "running"
     \/ /\ \E i \in DrawnRows(scroll_offset') : OutsideStore \in get_app(i)
        /\ status' = "terminated"
  /\ pc' = "top"
  /\ old_len' = 0
  /\ recomputed' = "no"
  /\ UNCHANGED << apps, tree, ranks, prompt, pcursor, filtered_apps, no_matches,
                  draw_all_apps, lcursor, visible_start_idx, visible_end_idx,
                  lcursor_visible, apps_len, launched_application, child,
                  distVars, queryVars, parseVars, historyVars, repeatVars >>

\* The rest of the tick with the left button pressed over the drawn row i:
\* if (hovered && ... && IsMouseButtonPressed(MOUSE_BUTTON_LEFT)) { launch }
Click ==
  /\ PastCtrlBlock
  /\ \E wheel \in WheelMoves :
       scroll_offset' =
         Min(Max(scroll_offset - wheel * SCROLL_SPEED, 0),
             apps_len * LINE_H - (WINDOW_H - PROMPT_H) + PADDING)
  /\ \E i \in DrawnRows(scroll_offset') : \E v \in get_app(i) : Launch(v)
  /\ pc' = "click"
  /\ old_len' = 0
  /\ recomputed' = "no"
  /\ UNCHANGED << apps, tree, ranks, prompt, pcursor, filtered_apps, no_matches,
                  draw_all_apps, lcursor, visible_start_idx, visible_end_idx,
                  lcursor_visible, apps_len,
                  distVars, queryVars, parseVars, historyVars, repeatVars >>

\* WindowShouldClose() at the head of the loop
Close ==
  /\ status = "running" /\ pc = "top"
  /\ pc' = "exit"
  /\ status' = "exited"
  /\ recomputed' = "no"
  /\ UNCHANGED << apps, tree, ranks, prompt, pcursor, filtered_apps, no_matches,
                  draw_all_apps, lcursor, visible_start_idx, visible_end_idx,
                  lcursor_visible, scroll_offset, apps_len, launched_application, child,
                  old_len, distVars, queryVars, parseVars, historyVars, repeatVars >>

Next ==
  \/ TickStart \/ InsertChar \/ pop_back
  \/ word_left \/ word_right \/ delete_word_right
  \/ paste \/ delete_char \/ delete_line \/ delete_whole_line \/ delete_word_left
  \/ start \/ end \/ left \/ right \/ up \/ down
  \/ VisibleRange \/ Enter \/ Frame \/ Click \/ Close

Spec == Init /\ [][Next]_vars

CursorInRange == pcursor >= 0 /\ pcursor <= Len(prompt)

\* The steps C1 is about: typing and every handler of the prompt but paste
C1_Operations ==
  { "chars", "pop_back", "word_left", "word_right", "delete_word_right",
    "delete_char", "delete_line", "delete_whole_line", "delete_word_left",
    "start", "end", "left", "right" }

\* C1: a typed character (accepted or rejected), a deletion or a motion of
\* the prompt cursor that starts with 0 <= pcursor <= len(prompt) ends with
\* 0 <= pcursor <= len(prompt).
C1_CursorSafety ==
  [][ (pc' \in C1_Operations /\ CursorInRange) => CursorInRange' ]_vars

\* The view the list shows: the whole store in store order while
\* filtered_apps is empty and no_matches is false, else filtered_apps
FilteredView ==
  IF filtered_apps = <<>> /\ ~no_matches THEN Identity(Len(apps)) ELSE filtered_apps

\* C3: while the program runs and the view is not empty, the list cursor is
\* an index of the view.
C3_ListCursorInView ==
  (status = "running" /\ FilteredView # <<>>) =>
    (lcursor >= 0 /\ lcursor <= Len(FilteredView) - 1)

\* C4: after a recompute that found the prompt empty, no_matches is false
\* and row i of the list is entry i of the store, for every i.
C4_EmptyQueryIdentity ==
  (recomputed # "no" /\ prompt = <<>>) =>
    (~no_matches /\ \A i \in 0..(Len(apps) - 1) : get_app(i) = { i })

\* C10: a step that called filter_apps leaves the list cursor and the
\* scroll offset at 0.
C10_RecomputeResets ==
  recomputed # "no" => (lcursor = 0 /\ scroll_offset = 0)

\* A handler of the Ctrl block has recomputed the view from a state in which
\* the list cursor or the scroll offset was off 0
C10_Witness ==
  /\ recomputed = "moved"
  /\ InCtrlBlock(pc)
  /\ lcursor = 0 /\ scroll_offset = 0

-----------------------------------------------------------------------------
(* SpecHistory: the History Log over successive runs of the program.  A run *)
(* loads the log with parse_ranks, leaves its loop with or without a        *)
(* launched entry (the loop itself is Spec's), and main's end: writes the   *)
(* launched name with write_rank.                                           *)

HistoryMaxLines == 3

NEWLINE == 10

\* ranks[line]++
Bump(rk, line) ==
  [nm \in DOMAIN rk \cup { line } |-> RankOf(rk, nm) + (IF nm = line THEN 1 ELSE 0)]

\* for (auto line: split(file.sv, '\n')) ranks[line]++; from the k-th line on
RECURSIVE CountLines(_, _, _)
CountLines(lines, k, rk) ==
  IF k > Len(lines) THEN rk ELSE CountLines(lines, k + 1, Bump(rk, lines[k]))

\* parse_ranks(path) on a file of the given bytes; ok is whether
\* file_t::read could open and map it
parse_ranks(rk, ok, bytes) ==
  IF ~ok THEN rk ELSE CountLines(split(bytes, NEWLINE), 1, rk)

\* A mutated write: the line is not terminated
AppendLineUnterminated(bytes, rank) == bytes \o rank

\* file << rank << '\n';
AppendLine(bytes, rank) == bytes \o rank \o << NEWLINE >>

\* write_rank(path, rank); opened is file.is_open()
write_rank(bytes, rank, opened) == IF opened THEN AppendLine(bytes, rank) ELSE bytes

StoreNames == { apps[k].name : k \in 1..Len(apps) }

InitHistory ==
  /\ apps = ScenarioStore
  /\ tree = BuildTree(apps)
  /\ ranks = <<>>
  /\ history = <<>>
  /\ pc = "parse_ranks"
  /\ LoopIdle /\ DistIdle /\ QueryIdle /\ ParseIdle /\ RepeatIdle

historyFrame ==
  UNCHANGED << apps, tree, prompt, pcursor, filtered_apps, no_matches, draw_all_apps,
               lcursor, visible_start_idx, visible_end_idx, lcursor_visible,
               scroll_offset, apps_len, child, old_len, recomputed,
               distVars, queryVars, parseVars, repeatVars >>

\* main: parse_ranks(history_path.c_str());
ParseRanks ==
  /\ pc = "parse_ranks"
  /\ \E ok \in BOOLEAN : ranks' = parse_ranks(ranks, ok, history)
  /\ pc' = "loop"
  /\ UNCHANGED << history, launched_application, status >>
  /\ historyFrame

\* The loop of main ends: by a launch, which leaves the entry's name in
\* launched_application, or by WindowShouldClose(), which leaves it empty
LoopExit ==
  /\ pc = "loop"
  /\ launched_application' \in StoreNames \cup { <<>> }
  /\ status' = "exited"
  /\ pc' = "end"
  /\ UNCHANGED << history, ranks >>
  /\ historyFrame

\* end: if (!launched_application.empty()) write_rank(history_path, ...);
WriteRank ==
  /\ pc = "end"
  /\ IF launched_application # <<>>
     THEN \E opened \in BOOLEAN :
            /\ history' = write_rank(history, launched_application, opened)
            /\ pc' = IF opened THEN "written" ELSE "not_written"
     ELSE /\ UNCHANGED history
          /\ pc' = "not_written"
  /\ UNCHANGED << ranks, launched_application, status >>
  /\ historyFrame

\* The program is started again: a new process, the same log
NextRun ==
  /\ pc \in { "written", "not_written" }
  /\ Len(split(history, NEWLINE)) < HistoryMaxLines
  /\ ranks' = <<>>
  /\ launched_application' = <<>>
  /\ status' = "running"
  /\ pc' = "parse_ranks"
  /\ UNCHANGED history
  /\ historyFrame

NextHistory == ParseRanks \/ LoopExit \/ WriteRank \/ NextRun

SpecHistory == InitHistory /\ [][NextHistory]_vars

\* The counts a load of the log gives
CountsOf(bytes) == parse_ranks(<<>>, TRUE, bytes)

\* C11: when a run that launched X has written the log (the log could be
\* opened), the log has gained exactly one line, X, as its last line, and a
\* load of it counts X once more than a load of the log before and every
\* other name as before.
C11_HistoryRoundTrip ==
  [][ (pc = "end" /\ pc' = "written") =>
        /\ launched_application # <<>>
        /\ split(history', NEWLINE) = Append(split(history, NEWLINE), launched_application)
        /\ \A nm \in DOMAIN CountsOf(history) \cup DOMAIN CountsOf(history')
                       \cup { launched_application } :
             RankOf(CountsOf(history'), nm) =
               RankOf(CountsOf(history), nm)
                 + (IF nm = launched_application THEN 1 ELSE 0) ]_vars

\* A run has launched and written an entry that the log it loaded already
\* counted, next to another name in the log
C11_Witness ==
  /\ pc = "written"
  /\ RankOf(ranks, launched_application) >= 1
  /\ RankOf(CountsOf(history), launched_application) = RankOf(ranks, launched_application) + 1
  /\ \E nm \in DOMAIN ranks : nm # launched_application

-----------------------------------------------------------------------------
(* SpecRepeat: handle_key_repeat for one action whose handler handle_keys   *)
(* calls only while a modifier is down (the handlers of the Alt and Ctrl    *)
(* blocks; pop_back, which no modifier gates, is the case of a modifier     *)
(* that is always down).  Time is in hundredths of a second.  A tick polls  *)
(* the keyboard: IsKeyPressed(key) is true when the key is down at this     *)
(* poll and was up at the last one.                                         *)

INITIAL_KEY_DELAY == 50
REPEAT_KEY_INTERVAL == 12

\* The time between two ticks: a frame of 0.07 s or of 0.2 s.  No sum of
\* these is exactly a threshold, so > on the floats and on these integers
\* agree.
TickDurations == { 7, 20 }

MaxTime == 100

\* handle_key_repeat(key, last_press_time, repeat_active, action) at time t:
\* the values it leaves and the number of calls of action()
handle_key_repeat(t, isdown, ispressed, last, active) ==
  LET held ==
        IF isdown
        THEN IF ~active
             THEN [last |-> last, active |-> (t - last > INITIAL_KEY_DELAY), fired |-> 0]
             ELSE IF t - last > REPEAT_KEY_INTERVAL
                  THEN [last |-> t, active |-> active, fired |-> 1]
                  ELSE [last |-> last, active |-> active, fired |-> 0]
        ELSE [last |-> last, active |-> FALSE, fired |-> 0]
  IN  IF ispressed
      THEN [last |-> t, active |-> held.active, fired |-> held.fired + 1]
      ELSE held

InitRepeat ==
  /\ RepeatIdle
  /\ pc = "top"
  /\ StoreIdle /\ LoopIdle /\ DistIdle /\ QueryIdle /\ ParseIdle /\ HistoryIdle

repeatFrame ==
  UNCHANGED << apps, tree, ranks, loopVars, pc, distVars, queryVars, parseVars,
               historyVars >>

\* A tick with the modifier down: handle_keys calls the action's handler
HandlerTick ==
  /\ \E dt \in TickDurations, isdown \in BOOLEAN :
       /\ time + dt <= MaxTime
       /\ time' = time + dt
       /\ key_down' = isdown
       /\ press_time' = IF isdown /\ ~key_down THEN time' ELSE press_time
       /\ \E r \in { handle_key_repeat(time', isdown, isdown /\ ~key_down,
                                         last_press_time, repeat_active) } :
            /\ last_press_time' = r.last
            /\ repeat_active' = r.active
            /\ fired' = r.fired
  /\ mod_down' = TRUE
  /\ repeatFrame

\* A tick with the modifier up: the handler is not called
SkippedTick ==
  /\ \E dt \in TickDurations, isdown \in BOOLEAN :
       /\ time + dt <= MaxTime
       /\ time' = time + dt
       /\ key_down' = isdown
       /\ press_time' = IF isdown /\ ~key_down THEN time' ELSE press_time
  /\ mod_down' = FALSE
  /\ fired' = 0
  /\ UNCHANGED << last_press_time, repeat_active >>
  /\ repeatFrame

NextRepeat == HandlerTick \/ SkippedTick

SpecRepeat == InitRepeat /\ [][NextRepeat]_vars

\* C12: at a tick that finds the key pressed (down, and up at the tick
\* before), the action's repeat mode is false when the tick begins.
C12_ReleaseEndsRepeat ==
  [][ (~key_down /\ key_down') => ~repeat_active ]_vars

\* C13: at a tick that finds the key pressed while its modifier is down, the
\* action runs exactly once and its last-trigger time becomes the time of
\* the tick.
C13_PressFiresOnce ==
  [][ (~key_down /\ key_down' /\ mod_down') =>
        (fired' = 1 /\ last_press_time' = time') ]_vars

\* C22: while the key stays held, the action does not run until more than
\* INITIAL_KEY_DELAY has passed since the press; it runs at most once in a
\* tick, more than REPEAT_KEY_INTERVAL after it ran last; and once in
\* repeat mode it runs at every tick of its handler that comes more than
\* REPEAT_KEY_INTERVAL after it ran last.
C22_RepeatTiming ==
  [][ (key_down /\ key_down' /\ mod_down')
        => /\ fired' >= 1 => /\ time' - press_time > INITIAL_KEY_DELAY
                             /\ fired' = 1
                             /\ time' - last_press_time > REPEAT_KEY_INTERVAL
           /\ (repeat_active /\ time' - last_press_time > REPEAT_KEY_INTERVAL)
                => fired' >= 1 ]_vars

\* No element of the sequence occurs in it twice
NoRepeats(seq) == \A x, y \in 1..Len(seq) : x # y => seq[x] # seq[y]

\* C23: after filter_apps ran, filtered_apps holds no Entry Store index
\* twice, and neither does what the index returned for the prompt.
C23_ViewHasNoDuplicate ==
  pc = "filtered" =>
    /\ NoRepeats(filtered_apps)
    /\ NoRepeats(query(apps, tree, prompt, FUZZY_MAX_DIST))

\* Over the four-entry store, an entry that contains the prompt was also
\* returned by the index, among other entries, and is in the view
C23_Witness ==
  /\ pc = "filtered" /\ Len(apps) = 4
  /\ Len(query(apps, tree, prompt, FUZZY_MAX_DIST)) >= 2
  /\ \E i \in Range(filtered_apps) :
       /\ Contains(apps[i + 1].name, prompt)
       /\ i \in Range(query(apps, tree, prompt, FUZZY_MAX_DIST))

\* C14: when fork() has failed in a launch, the loop is still running and no
\* entry is recorded as launched.
C14_ForkFailureAbandons ==
  child = "fork_failed" => (status = "running" /\ launched_application = <<>>)


-----------------------------------------------------------------------------
(* The navigator over a list longer than the viewport: main's loop with a  *)
(* store of ViewRows entries, more than the (WINDOW_H - PROMPT_H) / LINE_H *)
(* rows the window shows, and with the keys Ctrl+Shift+K (a recompute),    *)
(* Ctrl+P and Ctrl+N, the mouse wheel and the close button as inputs.      *)

ViewRows == 16

\* Entries named "a", "b", ...
ViewStore == [k \in 1..ViewRows |-> [name |-> << 96 + k >>, exec |-> plain_exec]]

InitView ==
  /\ apps = ViewStore
  /\ tree = BuildTree(apps)
  /\ ranks = <<>>
  /\ prompt = <<>> /\ pcursor = 0 /\ filtered_apps = Identity(Len(apps))
  /\ no_matches = FALSE /\ draw_all_apps = FALSE
  /\ lcursor = 0 /\ visible_start_idx = 0 /\ visible_end_idx = 0
  /\ lcursor_visible = FALSE /\ scroll_offset = 0 /\ apps_len = 0
  /\ launched_application = <<>> /\ child = "none"
  /\ old_len = 0 /\ status = "running" /\ recomputed = "no"
  /\ pc = "top"
  /\ DistIdle /\ QueryIdle /\ ParseIdle /\ HistoryIdle /\ RepeatIdle

NextView ==
  \/ TickStart \/ delete_whole_line \/ up \/ down \/ VisibleRange \/ Frame \/ Close

SpecView == InitView /\ [][NextView]_vars

\* The list cursor is a row of the visible range
\* [scroll_offset / LINE_H, (scroll_offset + (WINDOW_H - PROMPT_H)) / LINE_H)
CursorInViewport ==
  /\ lcursor >= TruncDiv(scroll_offset, LINE_H)
  /\ lcursor < TruncDiv(scroll_offset + (WINDOW_H - PROMPT_H), LINE_H)

\* C15: immediately after up or down, whatever recomputes, wheel scrolls and
\* list motions came before, the list cursor lies inside the visible range.
C15_CursorInViewport ==
  [][ (pc' \in { "up", "down" } /\ pc' # pc) => CursorInViewport' ]_vars

-----------------------------------------------------------------------------
(* Typing with the shift key: main's loop over the scenario store with the *)
(* characters 'F', 'f' and '~' and the cursor keys as inputs.              *)

ShiftedChars == { 70, 102, 126 }

TypeShifted == TypeChar(ShiftedChars)

NextType ==
  \/ TickStart \/ TypeShifted \/ left \/ right \/ VisibleRange \/ Frame \/ Close

SpecType == Init /\ [][NextType]_vars

\* C16: after a turn of the character loop the prompt holds no upper-case
\* letter, and the cursor has advanced by 1 if the character was inserted
\* and has not moved if it was not.
C16_InsertLowercases ==
  [][ (pc' = "chars" /\ status' = "running")
        => /\ \A k \in 1..Len(prompt') : ~(prompt'[k] \in 65..90)
           /\ pcursor' = IF prompt' # prompt THEN pcursor + 1 ELSE pcursor ]_vars

-----------------------------------------------------------------------------
(* The editing handlers, one step each, under Spec.                        *)

\* C17: pop_back on a non-empty prompt with the cursor at c, 0 < c <= size,
\* removes the character at index c - 1 and nothing else and leaves the
\* cursor at c - 1; on an empty prompt it changes nothing.
C17_PopBackBeforeCursor ==
  [][ (pc' = "pop_back" /\ pc # "pop_back")
        => IF prompt = <<>>
           THEN prompt' = prompt /\ pcursor' = pcursor
           ELSE (pcursor > 0 /\ pcursor <= Len(prompt))
                  => /\ status' = "running"
                     /\ prompt' = Erase(prompt, pcursor - 1, 1)
                     /\ pcursor' = pcursor - 1 ]_vars

\* C18: delete_word_left with the cursor at c, 0 < c <= size, leaves the
\* cursor at a position scan <= c and deletes the characters of [scan, c)
\* and no other: every character at index >= c stays, in order.
C18_DeleteWordLeftFrame ==
  [][ (/\ pc' = "delete_word_left" /\ pc # "delete_word_left"
       /\ pcursor > 0 /\ pcursor <= Len(prompt))
        => /\ status' = "running"
           /\ pcursor' >= 0 /\ pcursor' <= pcursor
           /\ prompt' = Erase(prompt, pcursor', pcursor - pcursor') ]_vars

\* C19: paste with the cursor inside the prompt inserts at the cursor a
\* text without leading or trailing whitespace and advances the cursor by
\* the length of what it inserted, so the cursor ends just after the
\* pasted text, within [0, size].
C19_PasteAdvancesByInserted ==
  [][ (pc' = "paste" /\ pc # "paste" /\ CursorInRange)
        => LET grown == Len(prompt') - Len(prompt)
               inserted == SubSeq(prompt', pcursor + 1, pcursor + grown)
           IN  /\ status' = "running"
               /\ grown >= 0
               /\ prompt' = Insert(prompt, pcursor, inserted)
               /\ trim(inserted) = inserted
               /\ pcursor' = pcursor + grown
               /\ CursorInRange' ]_vars

\* The largest scroll_offset the wheel step allows: the height of the rows
\* and the padding under them, less the height of the viewport
MaxScroll == apps_len * LINE_H + PADDING - (WINDOW_H - PROMPT_H)

\* C20: the wheel step of a tick leaves scroll_offset in [0, MaxScroll],
\* never negative even when the list is shorter than the viewport, and
\* does not move the list cursor.
C20_WheelClamp ==
  [][ (pc' = "top" /\ pc # "top")
        => /\ scroll_offset' >= 0
           /\ MaxScroll >= 0 => scroll_offset' <= MaxScroll
           /\ lcursor' = lcursor ]_vars

-----------------------------------------------------------------------------
(* The descriptor parser, one directory entry per step, under SpecParse.    *)

\* The value of the first of the lines that starts with key, empty when no
\* line does
FirstValue(lines, key) ==
  LET hits == { k \in 1..Len(lines) : StartsWith(lines[k], key) }
  IN  IF hits = {} THEN <<>>
      ELSE substr5(lines[CHOOSE k \in hits : \A h \in hits : k <= h])

\* C21: the entry parse_apps stores for a descriptor has the (lower-cased)
\* value of the file's first Name= line as its name and the value of its
\* first Exec= line as its exec: a later line never replaces an earlier.
C21_FirstKeyWins ==
  [][ (dir_pos' = dir_pos + 1 /\ Len(apps') = Len(apps) + 1)
        => LET lines == split(entries[dir_pos'].text, 10)
               stored == apps'[Len(apps')]
           IN  /\ stored.name = lower(FirstValue(lines, NameKey))
               /\ stored.exec = FirstValue(lines, ExecKey) ]_vars

\* C24: when Enter has launched, the list cursor is an index of the view,
\* get_app read that element of the view and nothing else, and the entry
\* launched is the one the view holds there; with an empty view (no
\* matches) Enter launches nothing.
C24_EnterLaunchesFromView ==
  pc = "enter" =>
    /\ lcursor >= 0 /\ lcursor < Len(FilteredView)
    /\ get_app(lcursor) = { FilteredView[lcursor + 1] }
    /\ status = "exited"
    /\ launched_application = apps[FilteredView[lcursor + 1] + 1].name

=============================================================================
